---- MODULE Spec2Model ----
(***************************************************************************)
(* Registration form (client state engine + submission gateway) and the    *)
(* registration endpoint (mock store, PostgreSQL and Supabase variants).   *)
(*                                                                         *)
(* A JavaScript string is modelled as a sequence of one-character strings, *)
(* so that trim(), toLowerCase(), length and the regular expressions are   *)
(* computed character by character.                                        *)
(***************************************************************************)
EXTENDS Naturals, Integers, Sequences, FiniteSets, TLC

\* ------------------------------------------------------------------------
\* Characters and string primitives
\* ------------------------------------------------------------------------

UpperLetters == <<"A","B","C","D","E","F","G","H","I","J","K","L","M",
                  "N","O","P","Q","R","S","T","U","V","W","X","Y","Z">>

LowerLetters == <<"a","b","c","d","e","f","g","h","i","j","k","l","m",
                  "n","o","p","q","r","s","t","u","v","w","x","y","z">>

Digits == {"0","1","2","3","4","5","6","7","8","9"}

\* the class \s of the regular expressions, which is also what trim() strips
Whitespace == {" ", "\t"}

\* the punctuation class of the password rule
SpecialChars == {"!","@","#","$","%","^","&","*","(",")","_","+","-","=",
                 "[","]","{","}",";","'",":","\"","\\","|",",",".","<",">",
                 "/","?"}

IsUpper(c) == \E i \in 1..Len(UpperLetters) : UpperLetters[i] = c

IsLower(c) == \E i \in 1..Len(LowerLetters) : LowerLetters[i] = c

toLowerChar(c) ==
  IF IsUpper(c)
    THEN LowerLetters[CHOOSE i \in 1..Len(UpperLetters) : UpperLetters[i] = c]
    ELSE c

\* mutant: letter case is left as it is
toLowerCase_Identity(s) == s

\* String.prototype.toLowerCase
toLowerCase(s) == [i \in 1..Len(s) |-> toLowerChar(s[i])]

\* String.prototype.trim: drop leading and trailing whitespace
trim(s) ==
  LET keep == {i \in 1..Len(s) : s[i] \notin Whitespace}
  IN IF keep = {} THEN <<>>
     ELSE LET lo == CHOOSE i \in keep : \A j \in keep : i <= j
              hi == CHOOSE i \in keep : \A j \in keep : j <= i
          IN SubSeq(s, lo, hi)

\* [^\s@]
NotSpaceOrAt(c) == c \notin Whitespace /\ c # "@"

\* /^[^\s@]+@[^\s@]+\.[^\s@]+$/
basicEmailRegex(s) ==
  \E a \in 2..Len(s) :
    /\ s[a] = "@"
    /\ \A i \in (1..Len(s)) \ {a} : NotSpaceOrAt(s[i])
    /\ \E d \in (a+2)..(Len(s)-1) : s[d] = "."

GmailSuffix == <<"@","g","m","a","i","l",".","c","o","m">>

\* /^[^\s@]+@gmail\.com$/
gmailRegex(s) ==
  LET n == Len(s) - Len(GmailSuffix)
  IN /\ n >= 1
     /\ \A i \in 1..n : NotSpaceOrAt(s[i])
     /\ SubSeq(s, n+1, Len(s)) = GmailSuffix

\* the reserved address "test@gmail.com"
ReservedEmail == <<"t","e","s","t">> \o GmailSuffix

hasLower(s) == \E i \in 1..Len(s) : IsLower(s[i])

hasUpper(s) == \E i \in 1..Len(s) : IsUpper(s[i])

hasNumber(s) == \E i \in 1..Len(s) : s[i] \in Digits

hasSpecial(s) == \E i \in 1..Len(s) : s[i] \in SpecialChars

MinPasswordLen == 8

MaxPasswordLen == 30

\* mutant: the bounds 8 and 30 themselves are refused
passwordLengthFails_Exclusive(password) ==
  Len(password) <= MinPasswordLen \/ Len(password) >= MaxPasswordLen

\* password.length < 8 || password.length > 30
passwordLengthFails(password) ==
  Len(password) < MinPasswordLen \/ Len(password) > MaxPasswordLen

\* ------------------------------------------------------------------------
\* Field messages: null is the empty sequence, a message a one-element one
\* ------------------------------------------------------------------------

Null == <<>>

Msg(t) == <<[text |-> t, isWarning |-> TRUE]>>

Fields == {"firstName", "lastName", "email", "password", "confirmPassword"}

\* the keys the messages object can get: the five fields, and the field name
\* of a server error
MessageKeys == Fields \cup {"general"}

\* Object.keys(formData) in insertion order
FieldOrder == <<"firstName", "lastName", "email", "password", "confirmPassword">>

\* ------------------------------------------------------------------------
\* Client validator (components/RegistrationForm.tsx validateField)
\* fd is the formData of the render the handler closes over
\* ------------------------------------------------------------------------

validateField(field, value, fd) ==
  CASE field = "firstName" ->
         IF value = <<>> THEN Msg("First name can't be empty") ELSE Null
    [] field = "lastName" ->
         IF value = <<>> THEN Msg("Last name can't be empty") ELSE Null
    [] field = "email" ->
         LET lowerEmail == toLowerCase(value)
         IN IF lowerEmail = <<>> THEN Msg("Email can't be empty")
            ELSE IF ~basicEmailRegex(lowerEmail)
              THEN Msg("Please put a valid email")
            ELSE IF ~gmailRegex(lowerEmail)
              THEN Msg("Must be a Gmail address")
            ELSE IF lowerEmail = ReservedEmail
              THEN Msg("Email address is already registered")
            ELSE Null
    [] field = "password" ->
         IF value = <<>> THEN Msg("Password can't be empty")
         ELSE IF passwordLengthFails(value)
           THEN Msg("Password must be 8-30 characters")
         ELSE IF ~hasLower(value) \/ ~hasUpper(value)
                 \/ ~hasNumber(value) \/ ~hasSpecial(value)
           THEN Msg("Needs upper, lower, number & symbol")
         ELSE Null
    [] field = "confirmPassword" ->
         IF value = <<>> THEN Msg("Please confirm your password")
         ELSE IF value # fd.password THEN Msg("Passwords don't match")
         ELSE Null
    [] OTHER -> Null

\* ------------------------------------------------------------------------
\* Request bodies.  A property of the parsed JSON body is absent, a
\* non-string value, or a string.
\* ------------------------------------------------------------------------

Str(s) == [t |-> "string", v |-> s]

Absent == [t |-> "absent", v |-> <<>>]

NonString == [t |-> "number", v |-> <<>>]

IsString(p) == p.t = "string"

\* an object body with the four properties
Obj(f, l, e, p) ==
  [kind |-> "object", firstName |-> f, lastName |-> l, email |-> e, password |-> p]

\* JSON null and a JSON primitive (number, string, boolean)
NullBody == [kind |-> "null", firstName |-> Absent, lastName |-> Absent,
             email |-> Absent, password |-> Absent]

PrimitiveBody == [kind |-> "primitive", firstName |-> Absent, lastName |-> Absent,
                  email |-> Absent, password |-> Absent]

Err(m, f) == [valid |-> FALSE, error |-> [message |-> m, field |-> f],
              data |-> [firstName |-> <<>>, lastName |-> <<>>,
                        email |-> <<>>, password |-> <<>>]]

Valid(f, l, e, p) == [valid |-> TRUE, error |-> [message |-> "", field |-> ""],
                      data |-> [firstName |-> f, lastName |-> l,
                                email |-> e, password |-> p]]

\* the structural test shared by validateUserData and validateAndNormalize
StructureOk(data) ==
  /\ data.kind = "object"
  /\ data.firstName.t # "absent"
  /\ data.lastName.t # "absent"
  /\ data.email.t # "absent"
  /\ data.password.t # "absent"
  /\ IsString(data.firstName)
  /\ IsString(data.lastName)
  /\ IsString(data.email)
  /\ IsString(data.password)

\* route.ts validateUserData (type guard)
validateUserData(data) == StructureOk(data)

\* mutant: the Gmail-domain check is made before the address-shape check
validateAndNormalize_GmailBeforeShape(data) ==
  IF ~StructureOk(data) THEN Err("Invalid input data", "general")
  ELSE
    LET firstName == trim(data.firstName.v)
        lastName  == trim(data.lastName.v)
        email     == toLowerCase(trim(data.email.v))
        password  == data.password.v
    IN IF firstName = <<>> THEN Err("First name can't be empty", "firstName")
       ELSE IF lastName = <<>> THEN Err("Last name can't be empty", "lastName")
       ELSE IF email = <<>> THEN Err("Email can't be empty", "email")
       ELSE IF ~gmailRegex(email)
         THEN Err("Must be a Gmail address", "email")
       ELSE IF ~basicEmailRegex(email)
         THEN Err("Please put a valid email", "email")
       ELSE IF email = ReservedEmail
         THEN Err("Email address is already registered", "email")
       ELSE IF password = <<>> THEN Err("Password can't be empty", "password")
       ELSE IF passwordLengthFails(password)
         THEN Err("Password must be 8-30 characters", "password")
       ELSE IF ~hasLower(password) \/ ~hasUpper(password)
               \/ ~hasNumber(password) \/ ~hasSpecial(password)
         THEN Err("Password needs uppercase, lowercase, number and symbol",
                  "password")
       ELSE Valid(firstName, lastName, email, password)

\* Supabase route validateAndNormalize
validateAndNormalize(data) ==
  IF ~StructureOk(data) THEN Err("Invalid input data", "general")
  ELSE
    LET firstName == trim(data.firstName.v)
        lastName  == trim(data.lastName.v)
        email     == toLowerCase(trim(data.email.v))
        password  == data.password.v
    IN IF firstName = <<>> THEN Err("First name can't be empty", "firstName")
       ELSE IF lastName = <<>> THEN Err("Last name can't be empty", "lastName")
       ELSE IF email = <<>> THEN Err("Email can't be empty", "email")
       ELSE IF ~basicEmailRegex(email)
         THEN Err("Please put a valid email", "email")
       ELSE IF ~gmailRegex(email)
         THEN Err("Must be a Gmail address", "email")
       ELSE IF email = ReservedEmail
         THEN Err("Email address is already registered", "email")
       ELSE IF password = <<>> THEN Err("Password can't be empty", "password")
       ELSE IF passwordLengthFails(password)
         THEN Err("Password must be 8-30 characters", "password")
       ELSE IF ~hasLower(password) \/ ~hasUpper(password)
               \/ ~hasNumber(password) \/ ~hasSpecial(password)
         THEN Err("Password needs uppercase, lowercase, number and symbol",
                  "password")
       ELSE Valid(firstName, lastName, email, password)

\* ------------------------------------------------------------------------
\* Concrete strings used as inputs
\* ------------------------------------------------------------------------

sAl == <<"A","l">>

sAlPadded == <<" ","A","l"," ">>

sBo == <<"B","o">>

sBlank == <<" "," ">>

eA == <<"a">> \o GmailSuffix

\* " A@Gmail.COM " normalizes to a@gmail.com
eAMixed == <<" ","A","@","G","m","a","i","l",".","C","O","M"," ">>

eB == <<"b">> \o GmailSuffix

eYahoo == <<"a","@","y","a","h","o","o",".","c","o","m">>

eNoAt == <<"a","b","c">>

eReservedUpper == <<"T","E","S","T","@","G","M","A","I","L",".","C","O","M">>

\* "Passw0rd!"
pGood == <<"P","a","s","s","w","0","r","d","!">>

\* " Passw0rd! " is a different password
pGoodPadded == <<" ">> \o pGood \o <<" ">>

\* "Password1": no symbol
pNoSymbol == <<"P","a","s","s","w","o","r","d","1">>

\* "Pa1!": too short, all classes present
pShort == <<"P","a","1","!">>

\* "abc": too short and classes missing
pShortWeak == <<"a","b","c">>

\* ------------------------------------------------------------------------
\* Responses, errors and the password hash
\* ------------------------------------------------------------------------

NoUser == <<>>

ErrorResponse(status, message, field) ==
  [status |-> status, success |-> FALSE, message |-> message, field |-> field,
   user |-> NoUser]

\* mutant: the 201 body returns the stored record whole, the hash included
SuccessResponse_WithHash(u) ==
  [status |-> 201, success |-> TRUE, message |-> "User registered successfully",
   field |-> "", user |-> <<u>>]

\* the non-secret projection of the new record
SuccessResponse(u) ==
  [status |-> 201, success |-> TRUE, message |-> "User registered successfully",
   field |-> "",
   user |-> <<[id |-> u.id, firstName |-> u.firstName, lastName |-> u.lastName,
               email |-> u.email, createdAt |-> u.createdAt]>>]

\* a thrown value: a SyntaxError or an Error whose message does or does not
\* include 'connect'/'ECONNREFUSED', 'bcrypt'; code is the SQLSTATE if any
Thrown(syntax, connect, bcrypt, code) ==
  [syntax |-> syntax, connect |-> connect, bcrypt |-> bcrypt, code |-> code]

NoError == Thrown(FALSE, FALSE, FALSE, "none")

SyntaxErr == Thrown(TRUE, FALSE, FALSE, "")

\* new Error('bcrypt error')
BcryptErr == Thrown(FALSE, FALSE, TRUE, "")

\* connect ECONNREFUSED 127.0.0.1:5432
ConnectErr == Thrown(FALSE, TRUE, FALSE, "")

\* duplicate key value violates unique constraint "users_email_key"
UniqueViolation == Thrown(FALSE, FALSE, FALSE, "23505")

OtherErr == Thrown(FALSE, FALSE, FALSE, "")

saltRounds == 12

\* bcrypt.hash(password, saltRounds): an opaque salted digest of exactly the
\* string it was given
bcryptHash(password, rounds) ==
  [alg |-> "bcrypt", rounds |-> rounds, of |-> password]

NoHash == [alg |-> "", rounds |-> 0, of |-> <<>>]

\* new Date().toISOString() / NOW(): an opaque timestamp
Timestamp == "timestamp"

\* the catch block of route.ts POST
routeCatch(error, useMockDb) ==
  IF error.syntax
    THEN ErrorResponse(400, "Invalid JSON in request body", "general")
  ELSE IF ~useMockDb /\ error.connect
    THEN ErrorResponse(503, "Database connection failed", "general")
  ELSE IF error.bcrypt
    THEN ErrorResponse(500, "Password encryption failed", "general")
  ELSE ErrorResponse(500, "Internal server error", "general")

\* outcome of `await request.json()`
JsonOk(b) == [ok |-> TRUE, body |-> b, error |-> NoError]

JsonThrows(e) == [ok |-> FALSE, body |-> NullBody, error |-> e]

\* outcome of `await bcrypt.hash(...)`
HashOutcomes == {NoError, BcryptErr, OtherErr}

\* ------------------------------------------------------------------------
\* State
\* ------------------------------------------------------------------------

VARIABLES
  mockUsers,      \* route.ts: the in-memory user list
  nextId,         \* route.ts: the id counter
  req,            \* the POST invocations: position, locals and response
  log,            \* ids of the invocations in the order they responded
  users,          \* the users table (email UNIQUE) behind pg / Supabase
  usersSeq,       \* the table's id sequence
  pool,           \* route.ts: TRUE when the pg pool was created
  formData, messages, touchedFields, formState, failureType, isSubmitting,
  calls,          \* the handleSubmit invocations awaiting fetch / response.json
  lastEvent,      \* the handler that ran last
  input, verdict  \* validator harness: the values given and the results

serverVars == <<mockUsers, nextId, req, log, users, usersSeq, pool>>

formVars == <<formData, messages, touchedFields, formState, failureType,
              isSubmitting, calls, lastEvent>>

harnessVars == <<input, verdict>>

vars == <<serverVars, formVars, harnessVars>>

\* ------------------------------------------------------------------------
\* Bounds and input sets
\* ------------------------------------------------------------------------

\* handleSubmit invocations that may be awaiting the network at once
MaxCalls == 2

\* concurrent POST invocations
NumReqs == 2

\* POSTs issued one after the other
NumSeqReqs == 3

Reqs == 1..NumReqs

SeqReqs == 1..NumSeqReqs

AllReqs == 1..(IF NumReqs > NumSeqReqs THEN NumReqs ELSE NumSeqReqs)

\* bodies sent to the mock-store endpoint
MockBodies ==
  { Obj(Str(sAl), Str(sBo), Str(eA), Str(pGood)),
    Obj(Str(sAlPadded), Str(sBo), Str(eAMixed), Str(pGoodPadded)),
    Obj(Str(sAl), Str(sBo), Str(eB), Str(pGood)),
    Obj(Str(sBlank), Str(sBo), Str(eYahoo), Str(pShortWeak)),
    Obj(Str(sAl), Str(sBo), Str(eA), Absent),
    Obj(NonString, Str(sBo), Str(eA), Str(pGood)),
    NullBody }

MockJsonOutcomes ==
  {JsonOk(b) : b \in MockBodies} \cup {JsonThrows(SyntaxErr), JsonThrows(OtherErr)}

NoResp == <<>>

IdleReq ==
  [pc |-> "idle", method |-> "POST", json |-> JsonThrows(NoError),
   firstName |-> <<>>, lastName |-> <<>>, email |-> <<>>, password |-> <<>>,
   hashed |-> NoHash, insertError |-> NoError, resp |-> NoResp]

\* invocations are numbered in the order the requests arrive
NextToArrive(r) == \A q \in AllReqs : q < r => req[q].pc # "idle"

\* the invocation r, with locals loc, responds with resp
Respond(r, loc, resp) ==
  /\ req' = [req EXCEPT ![r] = [loc EXCEPT !.pc = "done", !.resp = <<resp>>]]
  /\ log' = Append(log, r)

ServerInit ==
  /\ mockUsers = <<>>
  /\ nextId = 1
  /\ req = [r \in AllReqs |-> IdleReq]
  /\ log = <<>>
  /\ users = <<>>
  /\ usersSeq = 1
  /\ pool = TRUE

FormIdle ==
  /\ formData = [f \in Fields |-> <<>>]
  /\ messages = [f \in MessageKeys |-> Null]
  /\ touchedFields = [f \in Fields |-> FALSE]
  /\ formState = "idle"
  /\ failureType = "validation"
  /\ isSubmitting = FALSE
  /\ calls = <<>>
  /\ lastEvent = [h |-> "none", outcome |-> "none",
                  errorData |-> [kind |-> "none", hasError |-> FALSE,
                                 field |-> "", message |-> ""],
                  hadMessages |-> FALSE]

HarnessIdle ==
  /\ input = <<>>
  /\ verdict = <<>>

\* ------------------------------------------------------------------------
\* route.ts POST with the in-memory user list (USE_MOCK_DB = true)
\* ------------------------------------------------------------------------

\* mutant: the lowercasing is dropped from the normalization
normalizeEmail_NoLowerCase(raw) == trim(raw)

\* body.email.trim().toLowerCase()
normalizeEmail(raw) == toLowerCase(trim(raw))

\* mockUsers.find(user => user.email === email)
existingUser(email) == \E i \in 1..Len(mockUsers) : mockUsers[i].email = email

\* mutant: the counter is read and not advanced
postIncrement_Stuck(n) == n

\* id: nextId++ : the counter after the id was taken
postIncrement(n) == n + 1

\* mutant: the new record takes the place of the list
push_Overwrites(list, user) == <<user>>

\* mockUsers.push(newUser)
push(list, user) == Append(list, user)

\* POST up to `await bcrypt.hash`: body read, structure check, normalization,
\* duplicate check
MockPOST_Begin(r, j) ==
  /\ req[r].pc = "idle"
  /\ NextToArrive(r)
  /\ LET rec == [req[r] EXCEPT !.json = j]
     IN IF ~j.ok
          THEN Respond(r, rec, routeCatch(j.error, TRUE))
        ELSE IF ~validateUserData(j.body)
          THEN Respond(r, rec, ErrorResponse(400, "Invalid input data", "general"))
        ELSE
          LET firstName == trim(j.body.firstName.v)
              lastName  == trim(j.body.lastName.v)
              email     == normalizeEmail(j.body.email.v)
              password  == j.body.password.v
          IN IF existingUser(email)
               THEN Respond(r, rec,
                            ErrorResponse(409, "Email address is already registered",
                                          "email"))
               ELSE /\ req' = [req EXCEPT ![r] = [rec EXCEPT !.pc = "hash",
                                                             !.firstName = firstName,
                                                             !.lastName = lastName,
                                                             !.email = email,
                                                             !.password = password]]
                    /\ log' = log
  /\ UNCHANGED <<mockUsers, nextId, users, usersSeq, pool>>
  /\ UNCHANGED <<formVars, harnessVars>>

\* POST from the settling of bcrypt.hash: insert and 201, or the catch block
MockPOST_AfterHash(r, h) ==
  /\ req[r].pc = "hash"
  /\ IF h = NoError
       THEN LET hashedPassword == bcryptHash(req[r].password, saltRounds)
                newUser == [id |-> nextId,
                            firstName |-> req[r].firstName,
                            lastName |-> req[r].lastName,
                            email |-> req[r].email,
                            passwordHash |-> hashedPassword,
                            createdAt |-> Timestamp]
            IN /\ nextId' = postIncrement(nextId)
               /\ mockUsers' = push(mockUsers, newUser)
               /\ Respond(r, [req[r] EXCEPT !.hashed = hashedPassword],
                          SuccessResponse(newUser))
       ELSE /\ Respond(r, req[r], routeCatch(h, TRUE))
            /\ UNCHANGED <<mockUsers, nextId>>
  /\ UNCHANGED <<users, usersSeq, pool>>
  /\ UNCHANGED <<formVars, harnessVars>>

MockInit == ServerInit /\ FormIdle /\ HarnessIdle

MockNext ==
  \/ \E r \in Reqs, j \in MockJsonOutcomes : MockPOST_Begin(r, j)
  \/ \E r \in Reqs, h \in HashOutcomes : MockPOST_AfterHash(r, h)

\* concurrent POSTs against the mock store
SpecMock == MockInit /\ [][MockNext]_vars

\* GET: answers 405 and touches nothing else
GET(r) ==
  /\ req[r].pc = "idle"
  /\ NextToArrive(r)
  /\ Respond(r, [req[r] EXCEPT !.method = "GET"],
             ErrorResponse(405, "Method not allowed. Use POST to register.",
                           "general"))
  /\ UNCHANGED <<mockUsers, nextId, users, usersSeq, pool>>
  /\ UNCHANGED <<formVars, harnessVars>>

MockStoreNext ==
  \/ MockNext
  \/ \E r \in Reqs : GET(r)

\* concurrent POSTs and GETs against the mock store
SpecMockStore == MockInit /\ [][MockStoreNext]_vars

\* POSTs issued one after the other: the r-th POST starts only when every
\* earlier one has responded
MockPOST_BeginSeq(r, j) ==
  /\ \A q \in AllReqs : q < r => req[q].pc = "done"
  /\ MockPOST_Begin(r, j)

MockSeqNext ==
  \/ \E r \in SeqReqs, j \in MockJsonOutcomes : MockPOST_BeginSeq(r, j)
  \/ \E r \in SeqReqs, h \in HashOutcomes : MockPOST_AfterHash(r, h)

\* sequential POSTs against the mock store
SpecMockSeq == MockInit /\ [][MockSeqNext]_vars

\* ------------------------------------------------------------------------
\* The users table behind pg and Supabase:
\*   id BIGSERIAL PRIMARY KEY, email TEXT NOT NULL UNIQUE, ...
\* ------------------------------------------------------------------------

\* SELECT id FROM users WHERE email = $1 returns a row
emailInTable(email) == \E i \in 1..Len(users) : users[i].email = email

\* the row an INSERT of these values stores
NewRow(firstName, lastName, email, hashedPassword) ==
  [id |-> usersSeq, firstName |-> firstName, lastName |-> lastName,
   email |-> email, passwordHash |-> hashedPassword, createdAt |-> Timestamp]

\* outcome of a pool.query call apart from what the statement itself decides:
\* it runs, or it throws a connection error or some other error
QueryOutcomes == {NoError, ConnectErr, OtherErr}

\* ------------------------------------------------------------------------
\* route.ts POST with PostgreSQL (USE_MOCK_DB = false)
\* ------------------------------------------------------------------------

\* POST up to `await pool.query(existingUserQuery)`
PgPOST_Begin(r, j) ==
  /\ req[r].pc = "idle"
  /\ NextToArrive(r)
  /\ LET rec == [req[r] EXCEPT !.json = j]
     IN IF ~j.ok
          THEN Respond(r, rec, routeCatch(j.error, FALSE))
        ELSE IF ~validateUserData(j.body)
          THEN Respond(r, rec, ErrorResponse(400, "Invalid input data", "general"))
        ELSE IF ~pool
          THEN Respond(r, rec, ErrorResponse(503, "Database not available", "general"))
        ELSE /\ req' = [req EXCEPT ![r] =
                          [rec EXCEPT !.pc = "select",
                                      !.firstName = trim(j.body.firstName.v),
                                      !.lastName = trim(j.body.lastName.v),
                                      !.email = normalizeEmail(j.body.email.v),
                                      !.password = j.body.password.v]]
             /\ log' = log
  /\ UNCHANGED <<mockUsers, nextId, users, usersSeq, pool>>
  /\ UNCHANGED <<formVars, harnessVars>>

\* from the settling of the SELECT up to `await bcrypt.hash`
PgPOST_AfterSelect(r, q) ==
  /\ req[r].pc = "select"
  /\ IF q # NoError
       THEN Respond(r, req[r], routeCatch(q, FALSE))
     ELSE IF emailInTable(req[r].email)
       THEN Respond(r, req[r],
                    ErrorResponse(409, "Email address is already registered", "email"))
     ELSE /\ req' = [req EXCEPT ![r].pc = "hash"]
          /\ log' = log
  /\ UNCHANGED <<mockUsers, nextId, users, usersSeq, pool>>
  /\ UNCHANGED <<formVars, harnessVars>>

\* from the settling of bcrypt.hash up to `await pool.query(insertQuery)`
PgPOST_AfterHash(r, h) ==
  /\ req[r].pc = "hash"
  /\ IF h # NoError
       THEN Respond(r, req[r], routeCatch(h, FALSE))
       ELSE /\ req' = [req EXCEPT ![r].pc = "insert",
                                  ![r].hashed = bcryptHash(req[r].password, saltRounds)]
            /\ log' = log
  /\ UNCHANGED <<mockUsers, nextId, users, usersSeq, pool>>
  /\ UNCHANGED <<formVars, harnessVars>>

\* from the settling of the INSERT: the table rejects a second row with the
\* same email by throwing the unique violation, which the catch block handles
PgPOST_AfterInsert(r, q) ==
  /\ req[r].pc = "insert"
  /\ LET thrown == IF q # NoError THEN q
                   ELSE IF emailInTable(req[r].email) THEN UniqueViolation
                   ELSE NoError
         rec == [req[r] EXCEPT !.insertError = thrown]
         newUser == NewRow(req[r].firstName, req[r].lastName, req[r].email,
                           req[r].hashed)
     IN IF thrown # NoError
          THEN /\ Respond(r, rec, routeCatch(thrown, FALSE))
               /\ usersSeq' = IF thrown = UniqueViolation THEN usersSeq + 1
                              ELSE usersSeq
               /\ users' = users
          ELSE /\ users' = Append(users, newUser)
               /\ usersSeq' = usersSeq + 1
               /\ Respond(r, rec, SuccessResponse(newUser))
  /\ UNCHANGED <<mockUsers, nextId, pool>>
  /\ UNCHANGED <<formVars, harnessVars>>

\* the pg pool exists, or require('pg') failed and it is null
PgInit ==
  /\ mockUsers = <<>>
  /\ nextId = 1
  /\ req = [r \in AllReqs |-> IdleReq]
  /\ log = <<>>
  /\ users = <<>>
  /\ usersSeq = 1
  /\ pool \in BOOLEAN
  /\ FormIdle /\ HarnessIdle

PgNext ==
  \/ \E r \in Reqs, j \in MockJsonOutcomes : PgPOST_Begin(r, j)
  \/ \E r \in Reqs, q \in QueryOutcomes : PgPOST_AfterSelect(r, q)
  \/ \E r \in Reqs, h \in HashOutcomes : PgPOST_AfterHash(r, h)
  \/ \E r \in Reqs, q \in QueryOutcomes : PgPOST_AfterInsert(r, q)

\* concurrent POSTs against PostgreSQL
SpecPg == PgInit /\ [][PgNext]_vars

\* ------------------------------------------------------------------------
\* Supabase route POST
\* ------------------------------------------------------------------------

InternalServerError == ErrorResponse(500, "Internal server error", "general")

\* POST up to `await bcrypt.hash`
SbPOST_Begin(r, j) ==
  /\ req[r].pc = "idle"
  /\ NextToArrive(r)
  /\ LET rec == [req[r] EXCEPT !.json = j]
         validation == validateAndNormalize(j.body)
     IN IF ~j.ok
          THEN Respond(r, rec, InternalServerError)
        ELSE IF ~validation.valid
          THEN Respond(r, rec, ErrorResponse(400, validation.error.message,
                                             validation.error.field))
        ELSE /\ req' = [req EXCEPT ![r] =
                          [rec EXCEPT !.pc = "hash",
                                      !.firstName = validation.data.firstName,
                                      !.lastName = validation.data.lastName,
                                      !.email = validation.data.email,
                                      !.password = validation.data.password]]
             /\ log' = log
  /\ UNCHANGED <<mockUsers, nextId, users, usersSeq, pool>>
  /\ UNCHANGED <<formVars, harnessVars>>

\* from the settling of bcrypt.hash up to the awaited insert
SbPOST_AfterHash(r, h) ==
  /\ req[r].pc = "hash"
  /\ IF h # NoError
       THEN Respond(r, req[r], InternalServerError)
       ELSE /\ req' = [req EXCEPT ![r].pc = "insert",
                                  ![r].hashed = bcryptHash(req[r].password, saltRounds)]
            /\ log' = log
  /\ UNCHANGED <<mockUsers, nextId, users, usersSeq, pool>>
  /\ UNCHANGED <<formVars, harnessVars>>

\* how the insert call itself ends: a result ({data, error}), or a throw
SbInsertOutcomes == {"result", "dbError", "throws"}

\* from the settling of the insert: insertError with code 23505 when the email
\* is in the table, another insertError, a throw, or the new row
SbPOST_AfterInsert(r, o) ==
  /\ req[r].pc = "insert"
  /\ LET insertError == IF o = "dbError" THEN OtherErr
                        ELSE IF emailInTable(req[r].email) THEN UniqueViolation
                        ELSE NoError
         rec == [req[r] EXCEPT !.insertError = insertError]
         newUser == NewRow(req[r].firstName, req[r].lastName, req[r].email,
                           req[r].hashed)
     IN IF o = "throws"
          THEN /\ Respond(r, req[r], InternalServerError)
               /\ UNCHANGED <<users, usersSeq>>
        ELSE IF insertError # NoError
          THEN /\ IF insertError.code = "23505"
                    THEN Respond(r, rec,
                                 ErrorResponse(409,
                                               "Email address is already registered",
                                               "email"))
                    ELSE Respond(r, rec, InternalServerError)
               /\ usersSeq' = IF insertError = UniqueViolation THEN usersSeq + 1
                              ELSE usersSeq
               /\ users' = users
        ELSE /\ users' = Append(users, newUser)
             /\ usersSeq' = usersSeq + 1
             /\ Respond(r, rec, SuccessResponse(newUser))
  /\ UNCHANGED <<mockUsers, nextId, pool>>
  /\ UNCHANGED <<formVars, harnessVars>>

\* a 31-character password with all four classes
pTooLong == pGood \o pGood \o pGood \o <<"a","b","c","d">>

\* bodies sent to the validating endpoint
SbBodies ==
  { Obj(Str(sAl), Str(sBo), Str(eA), Str(pGood)),
    Obj(Str(sAlPadded), Str(sBo), Str(eAMixed), Str(pGoodPadded)),
    NullBody,
    PrimitiveBody,
    Obj(Str(sBlank), Str(sBo), Str(eA), Absent),
    Obj(NonString, Str(<<>>), Str(eNoAt), Str(pShort)),
    Obj(Str(sBlank), Str(<<>>), Str(eYahoo), Str(pShortWeak)),
    Obj(Str(<<>>), Str(sBo), Str(eA), Str(pGood)),
    Obj(Str(sAl), Str(sBlank), Str(eNoAt), Str(<<>>)),
    Obj(Str(sAl), Str(sBo), Str(sBlank), Str(pShort)),
    Obj(Str(sAl), Str(sBo), Str(eNoAt), Str(pNoSymbol)),
    Obj(Str(sAl), Str(sBo), Str(eYahoo), Str(<<>>)),
    Obj(Str(sAl), Str(sBo), Str(eReservedUpper), Str(pShortWeak)),
    Obj(Str(sAl), Str(sBo), Str(eA), Str(<<>>)),
    Obj(Str(sAl), Str(sBo), Str(eA), Str(pShortWeak)),
    Obj(Str(sAl), Str(sBo), Str(eA), Str(pTooLong)),
    Obj(Str(sAl), Str(sBo), Str(eA), Str(pNoSymbol)) }

SbJsonOutcomes ==
  {JsonOk(b) : b \in SbBodies} \cup {JsonThrows(SyntaxErr), JsonThrows(OtherErr)}

SbNext ==
  \/ \E r \in Reqs, j \in SbJsonOutcomes : SbPOST_Begin(r, j)
  \/ \E r \in Reqs, h \in HashOutcomes : SbPOST_AfterHash(r, h)
  \/ \E r \in Reqs, o \in SbInsertOutcomes : SbPOST_AfterInsert(r, o)

\* concurrent POSTs against the Supabase route
SpecSupabase == MockInit /\ [][SbNext]_vars

\* ------------------------------------------------------------------------
\* Properties of the mock-store endpoint
\* ------------------------------------------------------------------------

RespOf(r) == req[r].resp[1]

Responded(r) == req[r].pc = "done"

\* the request's email is a string, so that it has a normalized form
HasEmail(r) == req[r].json.ok /\ req[r].json.body.kind = "object"
               /\ IsString(req[r].json.body.email)

NormEmailOf(r) == toLowerCase(trim(req[r].json.body.email.v))

IsDuplicate409(resp) ==
  /\ resp.status = 409
  /\ resp.field = "email"
  /\ resp.message = "Email address is already registered"

RecordsWithEmail(e) ==
  {i \in 1..Len(mockUsers) : toLowerCase(trim(mockUsers[i].email)) = e}

\* C1: under every interleaving of concurrent POSTs the mock store never
\* holds two records with the same normalized email.
C1_NoTwoRecordsWithSameEmail ==
  \A i, j \in 1..Len(mockUsers) :
    i # j => toLowerCase(trim(mockUsers[i].email))
               # toLowerCase(trim(mockUsers[j].email))

PasswordMeetsRules(p) ==
  /\ Len(p) >= 8 /\ Len(p) <= 30
  /\ hasLower(p) /\ hasUpper(p) /\ hasNumber(p) /\ hasSpecial(p)

RecordPassesRules(u) ==
  /\ u.firstName # <<>> /\ trim(u.firstName) = u.firstName
  /\ u.lastName # <<>> /\ trim(u.lastName) = u.lastName
  /\ trim(u.email) = u.email /\ toLowerCase(u.email) = u.email
  /\ gmailRegex(u.email)
  /\ u.email # ReservedEmail
  /\ PasswordMeetsRules(u.passwordHash.of)

\* C4: every record of the store comes from a request that passed all Field
\* Validator rules.
C4_StoredRecordsPassRules ==
  \A i \in 1..Len(mockUsers) : RecordPassesRules(mockUsers[i])

\* ------------------------------------------------------------------------
\* Properties of the database-backed endpoints
\* ------------------------------------------------------------------------

\* C2: a request whose insert reported the unique-constraint violation is
\* answered with the duplicate 409 (field "email"), never with a 500.
C2_UniqueViolationGives409 ==
  \A r \in Reqs :
    (Responded(r) /\ req[r].insertError.code = "23505")
      => IsDuplicate409(RespOf(r))

\* the rules of the endpoint in the order the claim gives them; a rule about
\* a field's content does not fail on a body that has no such string
RuleFails(i, b) ==
  CASE i = 1 -> ~(/\ b.kind = "object"
                  /\ \A f \in {"firstName", "lastName", "email", "password"} :
                       b[f].t = "string")
    [] i = 2 -> IsString(b.firstName) /\ trim(b.firstName.v) = <<>>
    [] i = 3 -> IsString(b.lastName) /\ trim(b.lastName.v) = <<>>
    [] i = 4 -> IsString(b.email) /\ trim(b.email.v) = <<>>
    [] i = 5 -> IsString(b.email) /\ ~basicEmailRegex(toLowerCase(trim(b.email.v)))
    [] i = 6 -> IsString(b.email) /\ ~gmailRegex(toLowerCase(trim(b.email.v)))
    [] i = 7 -> IsString(b.email) /\ toLowerCase(trim(b.email.v)) = ReservedEmail
    [] i = 8 -> IsString(b.password) /\ b.password.v = <<>>
    [] i = 9 -> IsString(b.password)
                /\ (Len(b.password.v) < 8 \/ Len(b.password.v) > 30)
    [] i = 10 -> IsString(b.password)
                 /\ ~(hasLower(b.password.v) /\ hasUpper(b.password.v)
                      /\ hasNumber(b.password.v) /\ hasSpecial(b.password.v))

RuleField ==
  <<"general", "firstName", "lastName", "email", "email", "email", "email",
    "password", "password", "password">>

RuleMessage ==
  <<"Invalid input data", "First name can't be empty", "Last name can't be empty",
    "Email can't be empty", "Please put a valid email", "Must be a Gmail address",
    "Email address is already registered", "Password can't be empty",
    "Password must be 8-30 characters",
    "Password needs uppercase, lowercase, number and symbol">>

FailingRules(b) == {i \in 1..Len(RuleField) : RuleFails(i, b)}

FirstFailingRule(b) ==
  CHOOSE i \in FailingRules(b) : \A k \in FailingRules(b) : i <= k

\* C5: a request whose body fails some check is answered 400 with the field
\* and message of the earliest failing check in the order structure,
\* firstName, lastName, email (empty, shape, Gmail, sentinel), password
\* (empty, length, classes); a structurally invalid body gets "general" /
\* "Invalid input data"; a body failing no check is not answered 400.
C5_FirstFailingCheckIsReported ==
  \A r \in Reqs :
    (Responded(r) /\ req[r].json.ok) =>
      LET b == req[r].json.body
      IN IF FailingRules(b) # {}
           THEN /\ RespOf(r).status = 400
                /\ RespOf(r).field = RuleField[FirstFailingRule(b)]
                /\ RespOf(r).message = RuleMessage[FirstFailingRule(b)]
           ELSE RespOf(r).status # 400

\* a body failing several checks (blank first name, empty last name, non-Gmail
\* email, short weak password) was answered for the first name only
C5_Witness ==
  \E r \in Reqs :
    /\ Responded(r) /\ req[r].json.ok
    /\ Cardinality(FailingRules(req[r].json.body)) >= 4
    /\ FirstFailingRule(req[r].json.body) = 2
    /\ RespOf(r).status = 400
    /\ RespOf(r).field = "firstName"

\* ------------------------------------------------------------------------
\* Validator harness: one field value given to the client validator and to
\* the server validator (the other properties of the body being valid)
\* ------------------------------------------------------------------------

ServerFields == {"firstName", "lastName", "email", "password"}

\* a tab
sTab == <<"\t">>

\* "Pass0r!": 7 characters, all four classes
p7 == <<"P","a","s","s","0","r","!">>

\* "Passw0r": 7 characters, no symbol
p7NoSymbol == <<"P","a","s","s","w","0","r">>

\* "Passw0r!": 8 characters, all four classes
p8 == <<"P","a","s","s","w","0","r","!">>

\* 30 characters, all four classes
p30 == pGood \o pGood \o pGood \o <<"a","b","c">>

HarnessStrings ==
  { <<>>, sBlank, sTab, sAl, sAlPadded, sBo, eA, eAMixed, eB, eYahoo, eNoAt,
    ReservedEmail, eReservedUpper, pGood, pGoodPadded, pNoSymbol, pShort,
    pShortWeak, pTooLong, p7, p7NoSymbol, p8, p30 }

ValidBody == [firstName |-> sAl, lastName |-> sBo, email |-> eA, password |-> pGood]

BodyWith(field, value) ==
  LET b == [ValidBody EXCEPT ![field] = value]
  IN Obj(Str(b.firstName), Str(b.lastName), Str(b.email), Str(b.password))

\* the server's verdict on one field: null, or the message of its error
ServerVerdict(field, value) ==
  LET res == validateAndNormalize(BodyWith(field, value))
  IN IF res.valid THEN Null ELSE Msg(res.error.message)

\* the client's verdict on one field
ClientVerdict(field, value) ==
  validateField(field, value,
                [f \in Fields |-> IF f = field THEN value
                                  ELSE IF f = "confirmPassword" THEN pGood
                                  ELSE ValidBody[f]])

HarnessInit ==
  /\ input \in [field : ServerFields, value : HarnessStrings]
  /\ verdict = [clientDone |-> FALSE, client |-> Null,
                serverDone |-> FALSE, server |-> Null]
  /\ ServerInit /\ FormIdle

HarnessClient ==
  /\ ~verdict.clientDone
  /\ verdict' = [verdict EXCEPT !.clientDone = TRUE,
                                !.client = ClientVerdict(input.field, input.value)]
  /\ UNCHANGED <<input, serverVars, formVars>>

HarnessServer ==
  /\ ~verdict.serverDone
  /\ verdict' = [verdict EXCEPT !.serverDone = TRUE,
                                !.server = ServerVerdict(input.field, input.value)]
  /\ UNCHANGED <<input, serverVars, formVars>>

HarnessNext == HarnessClient \/ HarnessServer

\* the two validators applied to the same field value
SpecValidators == HarnessInit /\ [][HarnessNext]_vars

\* C6: for every value of firstName, lastName, email and password the client
\* validator and the server validator give the same verdict: both accept, or
\* both reject with the same message text.
C6_ClientAndServerAgree ==
  (verdict.clientDone /\ verdict.serverDone) => verdict.client = verdict.server

\* ------------------------------------------------------------------------
\* The registration form (components/RegistrationForm.tsx)
\* ------------------------------------------------------------------------

\* "A@Gmail.com"
eAUpper == <<"A","@","G","m","a","i","l",".","c","o","m">>

\* the values a change event can carry, per field
ChangeValues ==
  [firstName |-> {<<>>, sAl, sAlPadded, sBlank},
   lastName |-> {<<>>, sBo},
   email |-> {<<>>, eAUpper, eYahoo, ReservedEmail},
   password |-> {<<>>, pGood, pNoSymbol},
   confirmPassword |-> {<<>>, pGood, pNoSymbol}]

\* the value response.json() resolves to on a non-2xx response, or its throw.
\* A missing property and an empty string are both falsy and both written "".
ErrorData(kind, hasError, field, message) ==
  [kind |-> kind, hasError |-> hasError, field |-> field, message |-> message]

ErrorDatas ==
  { ErrorData("throws", FALSE, "", ""),
    ErrorData("null", FALSE, "", ""),
    ErrorData("object", FALSE, "", ""),
    ErrorData("object", TRUE, "", "Internal server error"),
    ErrorData("object", TRUE, "email", ""),
    ErrorData("object", TRUE, "email", "Email address is already registered"),
    ErrorData("object", TRUE, "password", "Password must be 8-30 characters"),
    ErrorData("object", TRUE, "general", "Internal server error") }

NoErrorData == ErrorData("none", FALSE, "", "")

\* the handler that ran, how the network call ended, the error body read, and
\* whether a message was held when the response was handled
Event(h, outcome, errorData, hadMessages) ==
  [h |-> h, outcome |-> outcome, errorData |-> errorData,
   hadMessages |-> hadMessages]

\* mutant: the submit control is never disabled
submitEnabled_Always == TRUE

\* <button type="submit" disabled={isSubmitting}>; the form is not rendered
\* in the success view
submitEnabled == ~isSubmitting

\* mutant: the inputs stay enabled while a request is outstanding
inputsEnabled_Always == TRUE

\* the inputs carry disabled={isSubmitting}
inputsEnabled == ~isSubmitting

\* mutant: the form stays on screen in the success view
formRendered_Always == TRUE

\* the success view is rendered in place of the form
formRendered == formState # "success"

\* mutant: confirmPassword is left out of the submit-time validation
hasErrors_SkipsConfirm ==
  \E f \in Fields \ {"confirmPassword"} : validateField(f, formData[f], formData) # Null

\* handleSubmit: some field of formData has a message
hasErrors == \E f \in Fields : validateField(f, formData[f], formData) # Null

\* Object.values(newMessages).some(msg => msg !== null)
hasAnyMessages(newMessages) == \E k \in MessageKeys : newMessages[k] # Null

\* mutant: the banner is cleared only when no message is left
formStateAfterChange_KeepsBannerWithMessages(touched, newMessages) ==
  IF touched
    THEN IF hasAnyMessages(newMessages) /\ formState = "idle" THEN "warning"
         ELSE IF ~hasAnyMessages(newMessages)
                 /\ formState \in {"warning", "failure"} THEN "idle"
         ELSE formState
    ELSE IF formState = "failure" THEN "idle" ELSE formState

\* handleInputChange: the state transitions after the value is stored
formStateAfterChange(touched, newMessages) ==
  IF touched
    THEN IF hasAnyMessages(newMessages) /\ formState = "idle" THEN "warning"
         ELSE IF ~hasAnyMessages(newMessages)
                 /\ formState \in {"warning", "failure"} THEN "idle"
         ELSE IF formState = "failure" THEN "idle"
         ELSE formState
    ELSE IF formState = "failure" THEN "idle" ELSE formState

\* mutant: the changed field is validated whether touched or not
changeMessages_Untouched(field, value) ==
  [messages EXCEPT ![field] = validateField(field, value, formData)]

\* handleInputChange: the messages after the change, the changed field's
\* message being recomputed only if (touchedFields[field])
changeMessages(field, value) ==
  IF touchedFields[field]
    THEN [messages EXCEPT ![field] = validateField(field, value, formData)]
    ELSE messages

handleInputChange(field, value) ==
  /\ formRendered /\ inputsEnabled
  /\ formData' = [formData EXCEPT ![field] = value]
  /\ LET newMessages == changeMessages(field, value)
     IN /\ messages' = newMessages
        /\ formState' = formStateAfterChange(touchedFields[field], newMessages)
  /\ lastEvent' = Event("change",
                        IF formState = "failure" THEN "fromFailure" ELSE "none",
                        NoErrorData, FALSE)
  /\ UNCHANGED <<touchedFields, failureType, isSubmitting, calls>>
  /\ UNCHANGED <<serverVars, harnessVars>>

\* mutant: leaving a field clears its message
blurMessage_Clears(field) == Null

\* handleBlur: validateField(field, formData[field])
blurMessage(field) == validateField(field, formData[field], formData)

\* mutant: a failing field gives warning from any state
formStateAfterBlur_FromAny(message) ==
  IF message # Null THEN "warning" ELSE formState

\* handleBlur: if (message && formState === "idle") setFormState("warning")
formStateAfterBlur(message) ==
  IF message # Null /\ formState = "idle" THEN "warning" ELSE formState

handleBlur(field) ==
  /\ formRendered /\ inputsEnabled
  /\ touchedFields' = [touchedFields EXCEPT ![field] = TRUE]
  /\ LET message == blurMessage(field)
     IN /\ messages' = [messages EXCEPT ![field] = message]
        /\ formState' = formStateAfterBlur(message)
  /\ lastEvent' = Event("blur", "none", NoErrorData, FALSE)
  /\ UNCHANGED <<formData, failureType, isSubmitting, calls>>
  /\ UNCHANGED <<serverVars, harnessVars>>

\* mutant: the password is trimmed on its way into the body
RequestBody_TrimmedPassword ==
  [firstName |-> formData.firstName, lastName |-> formData.lastName,
   email |-> toLowerCase(formData.email), password |-> trim(formData.password)]

\* the body of the fetch call
RequestBody ==
  [firstName |-> formData.firstName, lastName |-> formData.lastName,
   email |-> toLowerCase(formData.email), password |-> formData.password]

\* mutant: a message already shown is kept, the validator being asked only
\* about the fields that show none
submitMessages_KeepsOld ==
  [k \in MessageKeys |->
     IF messages[k] # Null THEN messages[k]
     ELSE IF k \in Fields THEN validateField(k, formData[k], formData)
     ELSE Null]

\* handleSubmit: newMessages, the validator's message of every failing field
submitMessages ==
  [k \in MessageKeys |->
     IF k \in Fields THEN validateField(k, formData[k], formData) ELSE Null]

\* handleSubmit up to `await fetch`
handleSubmit ==
  /\ formRendered /\ submitEnabled
  /\ Len(calls) < MaxCalls
  /\ touchedFields' = [f \in Fields |-> TRUE]
  /\ IF hasErrors
       THEN /\ messages' = submitMessages
            /\ failureType' = "validation"
            /\ formState' = "failure"
            /\ UNCHANGED <<isSubmitting, calls>>
       ELSE /\ isSubmitting' = TRUE
            /\ formState' = "idle"
            /\ calls' = Append(calls, [pc |-> "fetch", body |-> RequestBody,
                                       errorData |-> NoErrorData])
            /\ UNCHANGED <<messages, failureType>>
  /\ lastEvent' = Event("submit", "none", NoErrorData, FALSE)
  /\ UNCHANGED formData
  /\ UNCHANGED <<serverVars, harnessVars>>

Remove(seq, i) == SubSeq(seq, 1, i-1) \o SubSeq(seq, i+1, Len(seq))

\* mutant: no finally block
finallyBlock_Missing == isSubmitting' = isSubmitting

\* finally { setIsSubmitting(false) }
finallyBlock == isSubmitting' = FALSE

\* catch { setFailureType("server"); setFormState("failure") }
catchBlock ==
  /\ failureType' = "server"
  /\ formState' = "failure"
  /\ UNCHANGED <<formData, messages, touchedFields>>

\* mutant: a message alone makes a server error field-scoped
isFieldScoped_MessageOnly(errorData) ==
  errorData.hasError /\ errorData.message # ""

\* errorData.error?.field && errorData.error?.message
isFieldScoped(errorData) ==
  errorData.hasError /\ errorData.field # "" /\ errorData.message # ""

\* mutant: the rejected call is issued again
fetchThrows_Retries(i) ==
  /\ calls[i].pc = "fetch"
  /\ catchBlock
  /\ finallyBlock
  /\ calls' = calls
  /\ lastEvent' = Event("response", "throws", NoErrorData, FALSE)
  /\ UNCHANGED <<serverVars, harnessVars>>

\* handleSubmit: fetch rejects (network failure)
fetchThrows(i) ==
  /\ calls[i].pc = "fetch"
  /\ catchBlock
  /\ finallyBlock
  /\ calls' = Remove(calls, i)
  /\ lastEvent' = Event("response", "throws", NoErrorData, FALSE)
  /\ UNCHANGED <<serverVars, harnessVars>>

\* mutant: the touched flags survive a successful registration
clearForm_KeepsTouched ==
  /\ formData' = [f \in Fields |-> <<>>]
  /\ messages' = [k \in MessageKeys |-> Null]
  /\ touchedFields' = touchedFields

\* handleSubmit, response.ok: setFormData / setMessages({}) / setTouchedFields
clearForm ==
  /\ formData' = [f \in Fields |-> <<>>]
  /\ messages' = [k \in MessageKeys |-> Null]
  /\ touchedFields' = [f \in Fields |-> FALSE]

\* handleSubmit: fetch resolves with response.ok (the component's part)
onResponseOk(i) ==
  /\ calls[i].pc = "fetch"
  /\ formState' = "success"
  /\ clearForm
  /\ finallyBlock
  /\ calls' = Remove(calls, i)
  /\ lastEvent' = Event("response", "ok", NoErrorData, hasAnyMessages(messages))
  /\ UNCHANGED failureType

fetchOk(i) ==
  /\ onResponseOk(i)
  /\ UNCHANGED <<serverVars, harnessVars>>

\* handleSubmit: fetch resolves with a non-2xx response, up to
\* `await response.json()`
onResponseNotOk(i, errorData) ==
  /\ calls[i].pc = "fetch"
  /\ calls' = [calls EXCEPT ![i].pc = "json", ![i].errorData = errorData]
  /\ lastEvent' = Event("response", "notOk", NoErrorData, FALSE)
  /\ UNCHANGED <<formData, messages, touchedFields, formState, failureType,
                 isSubmitting>>

fetchNotOk(i, errorData) ==
  /\ onResponseNotOk(i, errorData)
  /\ UNCHANGED <<serverVars, harnessVars>>

\* mutant: the server's message is merged into the messages already held
serverMessages_Merged(errorData) ==
  [messages EXCEPT ![errorData.field] = Msg(errorData.message)]

\* setMessages({ [errorData.error.field]: { text, isWarning: true } })
serverMessages(errorData) ==
  [k \in MessageKeys |->
     IF k = errorData.field THEN Msg(errorData.message) ELSE Null]

\* handleSubmit: from the settling of response.json()
jsonSettles(i) ==
  /\ calls[i].pc = "json"
  /\ LET errorData == calls[i].errorData
     IN IF errorData.kind \in {"throws", "null"}
          THEN catchBlock
        ELSE IF isFieldScoped(errorData)
          THEN /\ formState' = "warning"
               /\ messages' = serverMessages(errorData)
               /\ UNCHANGED <<formData, touchedFields, failureType>>
        ELSE /\ failureType' = "server"
             /\ formState' = "failure"
             /\ UNCHANGED <<formData, messages, touchedFields>>
  /\ finallyBlock
  /\ calls' = Remove(calls, i)
  /\ lastEvent' = Event("response", "json", calls[i].errorData,
                       hasAnyMessages(messages))
  /\ UNCHANGED <<serverVars, harnessVars>>

\* the Login button of the success view
resetForm ==
  /\ formState = "success"
  /\ formState' = "idle"
  /\ lastEvent' = Event("acknowledge", "none", NoErrorData, FALSE)
  /\ UNCHANGED <<formData, messages, touchedFields, failureType, isSubmitting,
                 calls>>
  /\ UNCHANGED <<serverVars, harnessVars>>

FormInit == FormIdle /\ ServerInit /\ HarnessIdle

FormNext ==
  \/ \E f \in Fields : \E v \in ChangeValues[f] : handleInputChange(f, v)
  \/ \E f \in Fields : handleBlur(f)
  \/ handleSubmit
  \/ \E i \in 1..Len(calls) : fetchThrows(i)
  \/ \E i \in 1..Len(calls) : fetchOk(i)
  \/ \E i \in 1..Len(calls), e \in ErrorDatas : fetchNotOk(i, e)
  \/ \E i \in 1..Len(calls) : jsonSettles(i)
  \/ resetForm

\* the form under user events and network outcomes
SpecForm == FormInit /\ [][FormNext]_vars

\* ------------------------------------------------------------------------
\* Properties of the form
\* ------------------------------------------------------------------------

\* some field of the form fails the validator on its current value
AnyFieldFails ==
  \/ validateField("firstName", formData.firstName, formData) # Null
  \/ validateField("lastName", formData.lastName, formData) # Null
  \/ validateField("email", formData.email, formData) # Null
  \/ validateField("password", formData.password, formData) # Null
  \/ validateField("confirmPassword", formData.confirmPassword, formData) # Null

\* C7: a submit in which a field fails validation issues no request and
\* leaves the form in failure / validation; a request is outstanding only for
\* form data in which all five fields validate to null.
C7_InvalidSubmitIssuesNoRequest ==
  /\ (lastEvent.h = "submit" /\ AnyFieldFails)
       => /\ calls = <<>>
          /\ ~isSubmitting
          /\ formState = "failure"
          /\ failureType = "validation"
  /\ calls # <<>> => ~AnyFieldFails

\* a submit whose only failing field is confirmPassword ended in
\* failure / validation with no request
C7_Witness ==
  /\ lastEvent.h = "submit"
  /\ validateField("confirmPassword", formData.confirmPassword, formData) # Null
  /\ \A f \in ServerFields : validateField(f, formData[f], formData) = Null
  /\ formState = "failure" /\ failureType = "validation"
  /\ calls = <<>>

\* C8: at most one request of the form is outstanding, and while one is
\* outstanding isSubmitting is true (the submit control is disabled).
C8_SingleOutstandingRequest ==
  /\ Len(calls) <= 1
  /\ calls # <<>> => isSubmitting

\* a request is outstanding, its error body being read, the control disabled
C8_Witness ==
  /\ Len(calls) = 1
  /\ calls[1].pc = "json"
  /\ isSubmitting

\* the call has settled: fetch threw, or answered 2xx, or the error body of a
\* non-2xx answer was read or failed to be read
Settled == lastEvent.h = "response" /\ lastEvent.outcome \in {"throws", "ok", "json"}

\* C9: once the call has settled, whatever its outcome, isSubmitting is
\* false; the form is submitting only while a call is outstanding.
C9_SettledCallReenablesSubmit ==
  /\ Settled => ~isSubmitting
  /\ calls = <<>> => ~isSubmitting

\* reading the error body failed and the control is enabled again
C9_Witness ==
  /\ Settled
  /\ lastEvent.outcome = "json"
  /\ lastEvent.errorData.kind = "throws"
  /\ ~isSubmitting

\* an error body that names no field or carries no message
Unscoped(e) ==
  e.kind = "object" /\ (~e.hasError \/ e.field = "" \/ e.message = "")

\* C10: when the call throws, the error body cannot be read, or the non-2xx
\* answer carries an unscoped error, the form ends in failure / server.
C10_UnscopedErrorGivesServerFailure ==
  (/\ lastEvent.h = "response"
   /\ \/ lastEvent.outcome = "throws"
      \/ /\ lastEvent.outcome = "json"
         /\ \/ lastEvent.errorData.kind \in {"throws", "null"}
            \/ Unscoped(lastEvent.errorData))
  => (formState = "failure" /\ failureType = "server")

\* a non-2xx answer with a message and no field ended in failure / server
C10_Witness ==
  /\ lastEvent.h = "response"
  /\ lastEvent.outcome = "json"
  /\ lastEvent.errorData.hasError
  /\ lastEvent.errorData.field = ""
  /\ lastEvent.errorData.message # ""
  /\ formState = "failure" /\ failureType = "server"

\* the error body of the answer just handled names a field and has a message
FieldScopedAnswer ==
  /\ lastEvent.h = "response"
  /\ lastEvent.outcome = "json"
  /\ lastEvent.errorData.kind = "object"
  /\ lastEvent.errorData.hasError
  /\ lastEvent.errorData.field # ""
  /\ lastEvent.errorData.message # ""

\* C12: after a non-2xx answer with a field name and a message the form is in
\* warning (no banner) and the messages map holds exactly one entry, the
\* server's message on the named field; whatever was held before is gone.
C12_FieldErrorReplacesMessages ==
  FieldScopedAnswer
    => /\ formState = "warning"
       /\ \A k \in MessageKeys :
            messages[k] = IF k = lastEvent.errorData.field
                            THEN Msg(lastEvent.errorData.message)
                            ELSE Null

\* an answer scoped to email was handled while a message was held, and only
\* the email message is left
C12_Witness ==
  /\ FieldScopedAnswer
  /\ lastEvent.hadMessages
  /\ lastEvent.errorData.field = "email"
  /\ formState = "warning"
  /\ messages["email"] = Msg("Email address is already registered")
  /\ \A k \in MessageKeys \ {"email"} : messages[k] = Null

\* C13: in success the five values are empty, no message is held and no field
\* is touched; success is the state right after a 2xx answer to a request of
\* this form and is entered in no other way.
C13_SuccessIsClearedAndFrom2xx ==
  formState = "success"
    => /\ \A f \in Fields : formData[f] = <<>> /\ ~touchedFields[f]
       /\ \A k \in MessageKeys : messages[k] = Null
       /\ lastEvent.h = "response" /\ lastEvent.outcome = "ok"
       /\ calls = <<>>

\* success entered from a form that held a message
C13_Witness ==
  /\ formState = "success"
  /\ lastEvent.outcome = "ok"
  /\ lastEvent.hadMessages
  /\ \A f \in Fields : formData[f] = <<>> /\ ~touchedFields[f]

\* C14: the body of every request the form issues carries names without
\* leading or trailing whitespace and an email that is trimmed and lowercase.
C14_RequestBodyIsNormalized ==
  \A i \in 1..Len(calls) :
    /\ calls[i].body.firstName = trim(calls[i].body.firstName)
    /\ calls[i].body.lastName = trim(calls[i].body.lastName)
    /\ calls[i].body.email = toLowerCase(trim(calls[i].body.email))

\* C16: right after a field-change event formState is not failure, whichever
\* state and failure sub-kind preceded it and whatever messages remain.
C16_ChangeClearsFailure ==
  lastEvent.h = "change" => formState # "failure"

\* a change made under the server-failure banner that leaves a message held
C16_Witness ==
  /\ lastEvent.h = "change"
  /\ lastEvent.outcome = "fromFailure"
  /\ failureType = "server"
  /\ \E f \in Fields : messages[f] # Null
  /\ formState = "idle"

\* C17: in idle no field has a message.
C17_IdleHasNoMessages ==
  formState = "idle" => \A f \in Fields : messages[f] = Null

\* C18: in warning at least one field has a message.
C18_WarningHasAFieldMessage ==
  formState = "warning" => \E f \in Fields : messages[f] # Null

\* C19: a field that has a message fails the validator on its current value,
\* confirmPassword being compared with the current password.
C19_MessageMeansFieldFails ==
  \A f \in Fields :
    messages[f] # Null => validateField(f, formData[f], formData) # Null

\* ------------------------------------------------------------------------
\* The form wired to the Supabase route: fetch("/api/register") delivers the
\* body to POST and the route's response comes back to handleSubmit
\* ------------------------------------------------------------------------

\* the values a change event can carry in the wired system
SystemChangeValues ==
  [firstName |-> {sAlPadded},
   lastName |-> {sBo},
   email |-> {eAUpper},
   password |-> {pNoSymbol, pGoodPadded},
   confirmPassword |-> {pGoodPadded}]

\* request.json() of what JSON.stringify made of the fetch body
ParsedBody(body) ==
  Obj(Str(body.firstName), Str(body.lastName), Str(body.email),
      Str(body.password))

\* response.json() of an error response: { success: false, error: {...} }
ErrorDataOf(resp) == ErrorData("object", TRUE, resp.field, resp.message)

\* response.ok
IsOk(resp) == resp.status \in 200..299

\* the invocation has returned and its response has been taken
ClosedReq == [IdleReq EXCEPT !.pc = "closed"]

NoRequestOpen == \A q \in AllReqs : req[q].pc \in {"idle", "closed"}

\* the fetch of the outstanding call reaches the route
SystemSend(r) ==
  /\ calls # <<>>
  /\ calls[1].pc = "fetch"
  /\ NoRequestOpen
  /\ SbPOST_Begin(r, JsonOk(ParsedBody(calls[1].body)))

\* the fetch of the outstanding call fails before reaching the route
SystemNetworkError ==
  /\ calls # <<>>
  /\ NoRequestOpen
  /\ fetchThrows(1)

\* the route's response reaches the outstanding call
SystemReceive(r) ==
  /\ calls # <<>>
  /\ req[r].pc = "done"
  /\ IF IsOk(req[r].resp[1])
       THEN onResponseOk(1)
       ELSE onResponseNotOk(1, ErrorDataOf(req[r].resp[1]))
  /\ req' = [req EXCEPT ![r] = ClosedReq]
  /\ UNCHANGED <<mockUsers, nextId, log, users, usersSeq, pool>>
  /\ UNCHANGED harnessVars

SystemNext ==
  \/ \E f \in Fields : \E v \in SystemChangeValues[f] : handleInputChange(f, v)
  \/ \E f \in Fields : handleBlur(f)
  \/ handleSubmit
  \/ \E r \in Reqs : SystemSend(r)
  \/ SystemNetworkError
  \/ \E r \in Reqs, h \in HashOutcomes : SbPOST_AfterHash(r, h)
  \/ \E r \in Reqs, o \in SbInsertOutcomes : SbPOST_AfterInsert(r, o)
  \/ \E r \in Reqs : SystemReceive(r)
  \/ \E i \in 1..Len(calls) : jsonSettles(i)
  \/ resetForm

\* the form and the Supabase route behind it
SpecSystem == FormInit /\ [][SystemNext]_vars

\* ------------------------------------------------------------------------
\* The reserved address test@gmail.com at the form and at the Supabase route
\* ------------------------------------------------------------------------

\* "TeSt@Gmail.com"
eReservedMixed == <<"T","e","S","t","@","G","m","a","i","l",".","c","o","m">>

\* spellings whose lowercased form is test@gmail.com
ReservedSpellings == {ReservedEmail, eReservedUpper, eReservedMixed}

\* the values a change event can carry: every email is a reserved spelling
ReservedChangeValues ==
  [firstName |-> {sAl},
   lastName |-> {sBo},
   email |-> ReservedSpellings,
   password |-> {pGood},
   confirmPassword |-> {pGood}]

\* the values the form holds, as a client that skips the form's validation
\* and normalization would post them
DirectBody ==
  Obj(Str(formData.firstName), Str(formData.lastName), Str(formData.email),
      Str(formData.password))

\* a client posts to the route directly, one request at a time: the values
\* the form holds, or a body with an address that is not reserved
DirectPOST(r, b) ==
  /\ NoRequestOpen
  /\ SbPOST_Begin(r, JsonOk(b))

\* that client has its response
DirectReceive(r) ==
  /\ req[r].pc = "done"
  /\ req' = [req EXCEPT ![r] = ClosedReq]
  /\ UNCHANGED <<mockUsers, nextId, log, users, usersSeq, pool>>
  /\ UNCHANGED <<formVars, harnessVars>>

\* the user acts on the form between the requests
ReservedFormEvent ==
  /\ NoRequestOpen
  /\ \/ \E f \in Fields : \E v \in ReservedChangeValues[f] : handleInputChange(f, v)
     \/ \E f \in Fields : handleBlur(f)
     \/ handleSubmit

ReservedNext ==
  \/ ReservedFormEvent
  \/ \E r \in Reqs : DirectPOST(r, DirectBody)
  \/ \E r \in Reqs : DirectPOST(r, ParsedBody(ValidBody))
  \/ \E r \in Reqs, h \in HashOutcomes : SbPOST_AfterHash(r, h)
  \/ \E r \in Reqs, o \in SbInsertOutcomes : SbPOST_AfterInsert(r, o)
  \/ \E r \in Reqs : DirectReceive(r)

\* the form given reserved spellings, and the route posted to directly
SpecReserved == FormInit /\ [][ReservedNext]_vars

\* ------------------------------------------------------------------------
\* Properties of the wired system
\* ------------------------------------------------------------------------

\* the form has just handled an error body whose field is "general"
GeneralErrorHandled ==
  /\ lastEvent.h = "response"
  /\ lastEvent.outcome = "json"
  /\ lastEvent.errorData.kind = "object"
  /\ lastEvent.errorData.hasError
  /\ lastEvent.errorData.field = "general"

\* C11: after the form has handled an error the route reported with field
\* "general", the form is in failure with sub-kind server (the banner), not
\* in warning.
C11_GeneralErrorShowsBanner ==
  GeneralErrorHandled => (formState = "failure" /\ failureType = "server")

\* the invocation r is under way or has responded
Open(r) == req[r].pc \notin {"idle", "closed"}

\* C15: the body of a request carries the form's password value unchanged and
\* has no confirmPassword; the route receives that string and, when it hashes,
\* hashes exactly it; a stored row holds the hash of the password as entered.
C15_PasswordPreserved ==
  /\ \A i \in 1..Len(calls) :
       /\ calls[i].body.password = formData.password
       /\ DOMAIN calls[i].body = ServerFields
  /\ \A r \in Reqs :
       (Open(r) /\ calls # <<>>)
         => /\ req[r].json.body.password = Str(formData.password)
            /\ req[r].pc \in {"hash", "insert"}
                 => req[r].password = formData.password
            /\ req[r].hashed # NoHash
                 => req[r].hashed = bcryptHash(formData.password, saltRounds)
  /\ \A k \in 1..Len(users) :
       users[k].passwordHash.of \in SystemChangeValues.password
                                      \ {trim(pGoodPadded)}

\* the route has hashed " Passw0rd! " as the form holds it, spaces and
\* capital included, and is about to insert
C15_Witness ==
  /\ calls # <<>>
  /\ formData.password = pGoodPadded
  /\ \E r \in Reqs :
       /\ req[r].pc = "insert"
       /\ req[r].hashed.of = pGoodPadded
       /\ req[r].hashed.of # trim(pGoodPadded)

\* ------------------------------------------------------------------------
\* Properties of the reserved address
\* ------------------------------------------------------------------------

AlreadyRegistered == "Email address is already registered"

\* the body the route parsed has the four strings and a reserved spelling
ReservedBody(r) ==
  /\ req[r].json.ok
  /\ StructureOk(req[r].json.body)
  /\ req[r].json.body.email.v \in ReservedSpellings

\* the route's response to the same body with the email spelled test@gmail.com
CanonicalResponse(r) ==
  LET canon == [req[r].json.body EXCEPT !.email = Str(ReservedEmail)]
      v == validateAndNormalize(canon)
  IN ErrorResponse(400, v.error.message, v.error.field)

\* C20: every spelling whose lowercased form is test@gmail.com is rejected as
\* test@gmail.com is. At the form, once the email field was blurred or the
\* form submitted, the field shows "Email address is already registered", and
\* a submit ends in failure / validation with no request. At the route, the
\* response is the 400 the lowercase spelling gets, with field "email" and
\* that message when the names are present, and no row holds the address.
C20_ReservedSpellingsRejected ==
  /\ (formData.email \in ReservedSpellings /\ touchedFields["email"])
       => /\ messages["email"] = Msg(AlreadyRegistered)
          /\ messages["email"] = validateField("email", ReservedEmail, formData)
  /\ (formData.email \in ReservedSpellings /\ lastEvent.h = "submit")
       => /\ formState = "failure" /\ failureType = "validation"
          /\ calls = <<>>
  /\ \A r \in Reqs :
       ReservedBody(r)
         => /\ req[r].pc = "done"
            /\ RespOf(r) = CanonicalResponse(r)
            /\ RespOf(r).status = 400
            /\ (trim(req[r].json.body.firstName.v) # <<>>
                 /\ trim(req[r].json.body.lastName.v) # <<>>)
                 => /\ RespOf(r).field = "email"
                    /\ RespOf(r).message = AlreadyRegistered
  /\ \A k \in 1..Len(users) : users[k].email # ReservedEmail

\* TEST@GMAIL.COM was refused by the form at submit, the other four fields
\* being valid, and then by the route with 400 / email, the table left empty
C20_Witness ==
  /\ formData.email = eReservedUpper
  /\ lastEvent.h = "submit"
  /\ messages["email"] = Msg(AlreadyRegistered)
  /\ \A k \in MessageKeys \ {"email"} : messages[k] = Null
  /\ calls = <<>>
  /\ \E r \in Reqs :
       /\ req[r].pc = "done"
       /\ req[r].json.body.email = Str(eReservedUpper)
       /\ RespOf(r).status = 400
       /\ RespOf(r).field = "email"
       /\ RespOf(r).message = AlreadyRegistered
  /\ users = <<>>

\* ------------------------------------------------------------------------
\* Properties of the two validators
\* ------------------------------------------------------------------------

EmptyNameMessage ==
  [firstName |-> "First name can't be empty",
   lastName |-> "Last name can't be empty"]

\* C21: for firstName and lastName, a value that is empty after trimming
\* (the empty string, or whitespace only) gets the empty-name message from
\* the client validator and from the server validator.
C21_BlankNameIsRejected ==
  (input.field \in {"firstName", "lastName"} /\ trim(input.value) = <<>>)
    => /\ verdict.clientDone
            => verdict.client = Msg(EmptyNameMessage[input.field])
       /\ verdict.serverDone
            => verdict.server = Msg(EmptyNameMessage[input.field])

LengthMessage == Msg("Password must be 8-30 characters")

\* C22: a non-empty password of fewer than 8 or more than 30 characters gets
\* "Password must be 8-30 characters" from both validators, whatever classes
\* it lacks; one of 8 to 30 characters never gets that message, and with all
\* four classes it is accepted.
C22_LengthRuleIs8To30 ==
  (input.field = "password" /\ input.value # <<>>)
    => LET n == Len(input.value)
           allClasses == /\ hasLower(input.value) /\ hasUpper(input.value)
                         /\ hasNumber(input.value) /\ hasSpecial(input.value)
           Right(v) == IF n < 8 \/ n > 30 THEN v = LengthMessage
                       ELSE /\ v # LengthMessage
                            /\ allClasses => v = Null
       IN /\ verdict.clientDone => Right(verdict.client)
          /\ verdict.serverDone => Right(verdict.server)

\* "Passw0r", seven characters and no symbol, got the length message from
\* both validators
C22_Witness ==
  /\ input.field = "password"
  /\ input.value = p7NoSymbol
  /\ verdict.clientDone /\ verdict.serverDone
  /\ verdict.client = LengthMessage
  /\ verdict.server = LengthMessage

\* ------------------------------------------------------------------------
\* Properties of the endpoint's responses and of its store
\* ------------------------------------------------------------------------

UserKeys == {"id", "firstName", "lastName", "email", "createdAt"}

RecordKeys == UserKeys \cup {"passwordHash"}

\* the message texts the catch block and the early returns of route.ts give
RouteMessages ==
  {"Invalid input data", "Email address is already registered",
   "Invalid JSON in request body", "Database connection failed",
   "Database not available", "Password encryption failed",
   "Internal server error"}

\* the password the request r carried, when it carried a string
SentPassword(r) == req[r].json.body.password.v

\* C23: no response carries the password or its hash: a 201 body's user
\* object has exactly id, firstName, lastName, email and createdAt, none of
\* them the password; an error body has no user object and a fixed message;
\* and every stored record holds the bcrypt digest of the password its
\* request sent, under passwordHash, and the raw password nowhere.
C23_NoSecretInResponses ==
  /\ \A r \in Reqs :
       Responded(r) =>
         IF RespOf(r).status = 201
           THEN /\ RespOf(r).user # NoUser
                /\ DOMAIN RespOf(r).user[1] = UserKeys
                /\ \A k \in {"firstName", "lastName", "email"} :
                     RespOf(r).user[1][k] # SentPassword(r)
           ELSE /\ RespOf(r).user = NoUser
                /\ RespOf(r).message \in RouteMessages
  /\ \A i \in 1..Len(mockUsers) :
       /\ DOMAIN mockUsers[i] = RecordKeys
       /\ mockUsers[i].passwordHash.alg = "bcrypt"
       /\ \A k \in {"firstName", "lastName", "email"} :
            \A r \in Reqs :
              (Responded(r) /\ RespOf(r).status = 201)
                => mockUsers[i][k] # SentPassword(r)
       /\ \E r \in Reqs :
            /\ Responded(r)
            /\ RespOf(r).status = 201
            /\ RespOf(r).user[1].id = mockUsers[i].id
            /\ mockUsers[i].passwordHash = bcryptHash(SentPassword(r), 12)

\* a POST carrying " Passw0rd! " was answered 201 and its record stored,
\* and another POST was answered with an error
C23_Witness ==
  /\ \E r \in Reqs :
       /\ Responded(r)
       /\ RespOf(r).status = 201
       /\ SentPassword(r) = pGoodPadded
       /\ \E i \in 1..Len(mockUsers) :
            mockUsers[i].passwordHash = bcryptHash(pGoodPadded, 12)
  /\ \E r \in Reqs : Responded(r) /\ RespOf(r).status # 201

ErrorFields == {"firstName", "lastName", "email", "password", "general"}

\* C24: every response to a POST has status 201, 400, 409 or 500, and every
\* response other than a 201 is { success: false, error: { message, field } }
\* with field one of firstName, lastName, email, password, general.
C24_StatusAndErrorShape ==
  \A r \in Reqs :
    (Responded(r) /\ req[r].method = "POST")
      => /\ RespOf(r).status \in {201, 400, 409, 500}
         /\ RespOf(r).status # 201
              => /\ RespOf(r).success = FALSE
                 /\ RespOf(r).user = NoUser
                 /\ RespOf(r).field \in ErrorFields

\* C25: a POST that leaves the hash step, a SELECT or an INSERT through an
\* exception, and a POST whose body read throws something other than a
\* SyntaxError, is answered 500 "Internal server error", field general, and
\* with no other text.
C25_ExceptionGivesInternalServerError ==
  [][\A r \in Reqs :
       (/\ req'[r].pc = "done"
        /\ \/ /\ req[r].pc \in {"hash", "select", "insert"}
              /\ req'[r].resp[1].status \notin {201, 409}
           \/ /\ req[r].pc = "idle"
              /\ req'[r].method = "POST"
              /\ ~req'[r].json.ok
              /\ ~req'[r].json.error.syntax)
         => req'[r].resp[1]
              = ErrorResponse(500, "Internal server error", "general")]_vars

\* C26: a POST whose body is not parseable JSON is answered 400 with field
\* general, which is not the answer given to other exceptions, and the store
\* is as it was.
C26_UnparseableJsonGives400 ==
  [][\A r \in Reqs :
       (/\ req[r].pc = "idle"
        /\ req'[r].pc = "done"
        /\ req'[r].method = "POST"
        /\ ~req'[r].json.ok
        /\ req'[r].json.error.syntax)
         => /\ req'[r].resp[1].status = 400
            /\ req'[r].resp[1].field = "general"
            /\ req'[r].resp[1]
                 # ErrorResponse(500, "Internal server error", "general")
            /\ mockUsers' = mockUsers /\ nextId' = nextId
            /\ users' = users /\ usersSeq' = usersSeq]_vars

\* the invocation r responds in this step
Responds(r) == req[r].pc # "done" /\ req'[r].pc = "done"

\* C27: the mock store is append-only and changes only on success: a step in
\* which a POST responds 201 adds exactly one record and advances the id
\* counter by one; a step in which a POST responds with another status, or a
\* GET responds, or nothing responds, leaves the list and the counter as they
\* were; and every record already stored stays, unchanged, where it was.
C27_StoreChangesOnlyOn201 ==
  [][/\ IF \E r \in Reqs : /\ Responds(r)
                            /\ req'[r].method = "POST"
                            /\ req'[r].resp[1].status = 201
          THEN /\ Len(mockUsers') = Len(mockUsers) + 1
               /\ nextId' = nextId + 1
          ELSE /\ mockUsers' = mockUsers
               /\ nextId' = nextId
     /\ \A i \in 1..Len(mockUsers) :
          /\ i <= Len(mockUsers')
          /\ mockUsers'[i] = mockUsers[i]]_vars

\* a POST was answered 201 and then another, whose duplicate check had
\* passed, failed at the hash step: one record, and the counter at 2
C27_Witness ==
  /\ Len(log) = 2
  /\ RespOf(log[1]).status = 201
  /\ RespOf(log[2]).message = "Password encryption failed"
  /\ Len(mockUsers) = 1
  /\ nextId = 2

\* ------------------------------------------------------------------------
\* Properties of the form's submit, success view and requests
\* ------------------------------------------------------------------------

RequiredMessages ==
  [firstName |-> Msg("First name can't be empty"),
   lastName |-> Msg("Last name can't be empty"),
   email |-> Msg("Email can't be empty"),
   password |-> Msg("Password can't be empty"),
   confirmPassword |-> Msg("Please confirm your password"),
   general |-> Null]

\* C28: after a submit that fails validation all five touched flags are
\* true and the messages map holds, for each of the five fields, the
\* validator's result on the current values and nothing else; with all five
\* fields empty this is the validation banner and the five required-field
\* messages.
C28_FailedSubmitShowsEveryMessage ==
  (lastEvent.h = "submit" /\ formState = "failure")
    => /\ failureType = "validation"
       /\ \A f \in Fields : touchedFields[f]
       /\ \A f \in Fields : messages[f] = validateField(f, formData[f], formData)
       /\ messages.general = Null
       /\ (\A f \in Fields : formData[f] = <<>>) => messages = RequiredMessages

\* the empty form was submitted
C28_Witness ==
  /\ lastEvent.h = "submit"
  /\ formState = "failure"
  /\ \A f \in Fields : formData[f] = <<>>
  /\ messages = RequiredMessages

\* C29: from success the only step is the acknowledgement, and it leads to
\* idle with the five values empty, no message and no touched flag; no
\* change, blur, submit or response happens while the form is in success.
C29_SuccessLeavesOnlyByAcknowledgement ==
  [][formState = "success"
       => /\ lastEvent'.h = "acknowledge"
          /\ formState' = "idle"
          /\ \A f \in Fields : formData'[f] = <<>>
          /\ \A k \in MessageKeys : messages'[k] = Null
          /\ \A f \in Fields : ~touchedFields'[f]
          /\ calls' = <<>> /\ ~isSubmitting']_vars

\* the success view was acknowledged
C29_Witness ==
  /\ lastEvent.h = "acknowledge"
  /\ formState = "idle"
  /\ \A f \in Fields : formData[f] = <<>> /\ ~touchedFields[f]
  /\ \A k \in MessageKeys : messages[k] = Null

\* the requests of the form that are awaiting the network's answer
NumFetching(c) == Cardinality({i \in 1..Len(c) : c[i].pc = "fetch"})

\* C30: the form never retries: a submit whose five fields pass the
\* validator issues exactly one request, and no other step issues one - a
\* step in which fetch is answered or rejects ends that request, and a failed
\* submit, a change, a blur, an acknowledgement and the reading of an error
\* body issue none.
C30_OneRequestPerPassingSubmit ==
  [][IF lastEvent'.h = "submit" /\ ~AnyFieldFails
       THEN NumFetching(calls') = NumFetching(calls) + 1
       ELSE /\ NumFetching(calls') <= NumFetching(calls)
            /\ (lastEvent'.h = "response"
                 /\ lastEvent'.outcome \in {"throws", "ok", "notOk"})
                 => NumFetching(calls') = NumFetching(calls) - 1]_vars

\* the request failed on the network and none is outstanding
C30_Witness ==
  /\ lastEvent.h = "response"
  /\ lastEvent.outcome = "throws"
  /\ formState = "failure" /\ failureType = "server"
  /\ calls = <<>>

\* ------------------------------------------------------------------------
\* Properties of the form's change and blur handlers
\* ------------------------------------------------------------------------

\* some field of the form shows a message
AnyFieldMessage == \E f \in Fields : messages[f] # Null

\* C31: a change made while the form is in failure leads to warning if a
\* field still has a message after it, and to idle only if none has.
C31_ChangeFromFailureFollowsMessages ==
  (lastEvent.h = "change" /\ lastEvent.outcome = "fromFailure")
    => formState = IF AnyFieldMessage THEN "warning" ELSE "idle"

\* the validator fails a touched field on the values of fd
TouchedFieldFails(touched, fd) ==
  \E g \in Fields : touched[g] /\ validateField(g, fd[g], fd) # Null

\* C32: a change to an already-touched field made in idle or warning leads
\* to idle if the validator passes every touched field on the new values,
\* and to warning if it fails one of them.
C32_ChangeFollowsTouchedFields ==
  [][\A f \in Fields :
       (/\ lastEvent'.h = "change"
        /\ formData'[f] # formData[f]
        /\ touchedFields[f]
        /\ formState \in {"idle", "warning"})
         => formState' = IF TouchedFieldFails(touchedFields', formData')
                           THEN "warning" ELSE "idle"]_vars

\* C33: a field with a message has its touched flag set; and a change to a
\* field whose touched flag is not set leaves every message as it was.
C33_MessagesOnlyOnTouchedFields ==
  /\ [](\A f \in Fields : messages[f] # Null => touchedFields[f])
  /\ [][\A f \in Fields :
          (/\ lastEvent'.h = "change"
           /\ formData'[f] # formData[f]
           /\ ~touchedFields[f])
            => messages' = messages]_vars

\* "Passw0rd" was typed into the untouched password field while another
\* field shows a message: the password shows none
C33_Witness ==
  /\ lastEvent.h = "change"
  /\ formData.password = pNoSymbol
  /\ ~touchedFields.password
  /\ messages.password = Null
  /\ AnyFieldMessage

\* C34: a blur on a field sets that field's touched flag and replaces that
\* field's message with the validator's result on the current values; the
\* values, the other messages and the other flags stay; formState goes from
\* idle to warning when the field fails and is otherwise left as it was.
C34_BlurTouchesOneField ==
  [][lastEvent'.h = "blur"
       => /\ formData' = formData
          /\ \E f \in Fields :
               /\ touchedFields' = [touchedFields EXCEPT ![f] = TRUE]
               /\ messages' = [messages EXCEPT
                                 ![f] = validateField(f, formData[f], formData)]
               /\ formState' = IF formState = "idle" /\ messages'[f] # Null
                                 THEN "warning" ELSE formState]_vars

\* a failing field was left while the server-failure banner shows, and the
\* banner stays
C34_Witness ==
  /\ lastEvent.h = "blur"
  /\ formState = "failure"
  /\ failureType = "server"
  /\ AnyFieldMessage

\* C35: every request the form issues passes the server's validation:
\* validateAndNormalize is valid on the body of every outstanding request,
\* so that the server cannot answer it with a field-scoped 400.
C35_IssuedBodyPassesServerValidation ==
  \A i \in 1..Len(calls) : validateAndNormalize(ParsedBody(calls[i].body)).valid

\* C36: while a request is outstanding (isSubmitting), formState is idle,
\* the five touched flags are set, the form values are those the request
\* body was built from, and every field validates to null.
C36_SubmittingFormIsFrozen ==
  isSubmitting
    => /\ formState = "idle"
       /\ \A f \in Fields : touchedFields[f]
       /\ Len(calls) = 1
       /\ calls[1].body = RequestBody
       /\ ~AnyFieldFails

\* the error body of the answer to " Al " / "Bo" is being read
C36_Witness ==
  /\ isSubmitting
  /\ Len(calls) = 1
  /\ calls[1].pc = "json"
  /\ calls[1].body.firstName = sAlPadded
  /\ formData.firstName = sAlPadded

\* C37: whenever the validation banner shows (failure / validation) some
\* field has a message: blurs after a failed submit never leave the banner
\* with every inline message cleared.
C37_ValidationBannerHasAMessage ==
  (formState = "failure" /\ failureType = "validation") => AnyFieldMessage

\* after a failed submit a field was left, and the banner and the message
\* of the empty password are still there
C37_Witness ==
  /\ lastEvent.h = "blur"
  /\ formState = "failure"
  /\ failureType = "validation"
  /\ formData.password = <<>>
  /\ messages.password = Msg("Password can't be empty")

\* ------------------------------------------------------------------------
\* Properties of the mock store's ids
\* ------------------------------------------------------------------------

\* C38: the ids in the mock store are 1, 2, 3, ... in insertion order with
\* no repeat and no gap, and the next id is one more than the number of
\* records: a request that fails takes no id.
C38_IdsAreSequential ==
  /\ \A i \in 1..Len(mockUsers) : mockUsers[i].id = i
  /\ nextId = Len(mockUsers) + 1

\* the first POST to respond failed at the hash step, and the POST that
\* responded after it was given id 1
C38_Witness ==
  /\ Len(log) = 2
  /\ RespOf(log[1]).status = 500
  /\ RespOf(log[2]).status = 201
  /\ RespOf(log[2]).user[1].id = 1
  /\ Len(mockUsers) = 1
  /\ nextId = 2

====
